---- MODULE Spec2Model ----
(***************************************************************************)
(* A model of the simulation and storage-sizing engine of the two          *)
(* Streamlit scripts solar_app.py and solar_pro.py:                        *)
(*   - the PV generation model        (simulate_pv, simulate_generation),  *)
(*   - the load aligner               (truncate / np.tile),                *)
(*   - the greedy battery dispatch    (solar_app.py loop over the hours),  *)
(*   - the daily aggregation and the storage advisor (solar_pro.py tab 3), *)
(*   - the fetch / upload reruns of the scripts and what they display.     *)
(*                                                                         *)
(* Every component has its own specification (SpecPV, SpecAlign,           *)
(* SpecDispatch, SpecAdvisor, SpecSession) over its own variables; the     *)
(* variables of the other components stay at their idle values.            *)
(*                                                                         *)
(* Numbers are exact fixed-point integers; the unit of each quantity is    *)
(* stated where it is introduced.                                          *)
(***************************************************************************)
EXTENDS Integers, Sequences, FiniteSets, TLC

VARIABLES
    \* ---- PV generation model
    temp,            \* ambient temperature of the hour, degrees C
    ghi,             \* irradiance of the hour, in steps of 100 W/m2
    capacity,        \* installed capacity, kW
    pr,              \* performance ratio, in hundredths
    pv_out,          \* solar_app.py: result of simulate_pv (Option)
    gen_kw,          \* solar_pro.py: column gen_kw of simulate_generation (Option)
    \* ---- load aligner
    load_vals,       \* the raw load sequence read from the uploaded file
    needed_len,      \* len(weather_df), the target length
    app_load,        \* solar_app.py: weather_df['load'] (Option)
    app_msg,         \* solar_app.py: the st.success / st.error shown
    pro_load_kw,     \* solar_pro.py: final_df['load_kw'] (Option)
    pro_msg,         \* solar_pro.py: the st.error shown, if any
    \* ---- battery dispatch (solar_app.py)
    battery_cap,     \* kWh
    load,            \* weather_df['load'], kW per hour
    pv_gen,          \* weather_df['pv_gen'], kW per hour
    net_load,        \* weather_df['net_load']
    i,               \* loop index (1-based here, 0-based in the code)
    current_soc,     \* kWh
    soc,             \* list soc
    battery_action,  \* list battery_action
    grid_power,      \* weather_df['grid_power'] (Option)
    pc,              \* position of the dispatch code
    \* ---- daily aggregation and advisor (solar_pro.py, tab 3)
    day_net,         \* net_load grouped by calendar day: a sequence of days
    daily,           \* the name daily: bound to a frame or not (Option)
    effective,       \* column daily['effective'] (Option)
    advice,          \* what tab 3 shows
    adv_pc,          \* position of the tab-3 code
    \* ---- reruns of the scripts
    weather_df,      \* st.session_state['weather_df']
    final_df,        \* st.session_state['final_df']
    uploaded_file,   \* the file in the uploader
    last_fetch,      \* outcome of the most recent weather fetch
    fetches,         \* number of fetches so far
    pro_tab2,        \* solar_pro.py: what tab 2 shows after the rerun
    pro_tab3,        \* solar_pro.py: what tab 3 shows after the rerun
    pro_error,       \* solar_pro.py: the st.error of the rerun
    app_last_fetch,  \* solar_app.py: outcome of get_weather_data in the rerun
    app_view         \* solar_app.py: what the rerun shows

pvVars       == <<temp, ghi, capacity, pr, pv_out, gen_kw>>
alignVars    == <<load_vals, needed_len, app_load, app_msg, pro_load_kw, pro_msg>>
dispatchVars == <<battery_cap, load, pv_gen, net_load, i, current_soc, soc,
                  battery_action, grid_power, pc>>
advisorVars  == <<day_net, daily, effective, advice, adv_pc>>
sessionVars  == <<weather_df, final_df, uploaded_file, last_fetch, fetches,
                  pro_tab2, pro_tab3, pro_error, app_last_fetch, app_view>>
vars == <<pvVars, alignVars, dispatchVars, advisorVars, sessionVars>>

----------------------------------------------------------------------------
(* Helpers shared by the components.                                       *)

\* Python None / a column that was never assigned, and a present value.
None == [some |-> FALSE, val |-> <<>>]
Some(v) == [some |-> TRUE, val |-> v]

Min2(a, b) == IF a <= b THEN a ELSE b
Min3(a, b, c) == Min2(a, Min2(b, c))
Abs(x) == IF x < 0 THEN -x ELSE x

RECURSIVE SeqsUpTo(_, _)
\* all sequences over S of length 0..n
SeqsUpTo(S, n) ==
    IF n = 0 THEN {<<>>}
    ELSE LET shorter == SeqsUpTo(S, n - 1)
         IN shorter \cup {Append(s, x) : s \in {t \in shorter : Len(t) = n - 1}, x \in S}

SeqsOfLen(S, n) == {s \in SeqsUpTo(S, n) : Len(s) = n}

----------------------------------------------------------------------------
(* Idle values: the state of a component no specification is driving.      *)

PVIdle ==
    /\ temp = 0 /\ ghi = 0 /\ capacity = 0 /\ pr = 0
    /\ pv_out = None /\ gen_kw = None

AlignIdle ==
    /\ load_vals = <<>> /\ needed_len = 0
    /\ app_load = None /\ app_msg = "none"
    /\ pro_load_kw = None /\ pro_msg = "none"

DispatchIdle ==
    /\ battery_cap = 0 /\ load = <<>> /\ pv_gen = <<>> /\ net_load = <<>>
    /\ i = 0 /\ current_soc = 0 /\ soc = <<>> /\ battery_action = <<>>
    /\ grid_power = None /\ pc = "idle"

AdvisorIdle ==
    /\ day_net = <<>> /\ daily = None /\ effective = None
    /\ advice = [kind |-> "none"] /\ adv_pc = "idle"

SessionIdle ==
    /\ weather_df = None /\ final_df = None /\ uploaded_file = "none"
    /\ last_fetch = "never" /\ fetches = 0
    /\ pro_tab2 = "idle" /\ pro_tab3 = "idle" /\ pro_error = {}
    /\ app_last_fetch = "never" /\ app_view = "idle"

----------------------------------------------------------------------------
(* PV GENERATION MODEL                                                     *)
(*                                                                         *)
(* Units: temp in degrees C, ghi in steps of 100 W/m2, pr in hundredths,   *)
(* capacity in kW.  With these units                                       *)
(*    cell_temp  = temp + 0.025 * (100 ghi) = (2 temp + 5 ghi) / 2         *)
(*    correction = 1 - 0.004 (cell_temp - 25)                              *)
(*               = (500 - (2 cell_temp - 50)) / 500                        *)
(*    pv_out     = capacity * (ghi / 10) * (pr / 100) * correction         *)
(* so the power is an exact integer in units of 1/500000 kW.               *)

MaxCapacity == 2

PvTemps == (-50 .. 60) \cup {300}      \* 300: an implausible upstream value
PvGhis == 0 .. 15                      \* 0 .. 1500 W/m2
PvCapacities == (1 .. MaxCapacity) \cup {100}
PvPrs == {1, 70, 82, 90, 99}

\* twice the cell temperature
CellTemp2(t, g) == 2 * t + 5 * g

\* 500 times the temperature correction factor
Correction500(t, g) == 500 - (CellTemp2(t, g) - 50)

\* .clip(lower=0)
ClipLower0(x) == IF x < 0 THEN 0 ELSE x

\* the bug of losing the irradiance factor ghi / 1000
simulate_pv_no_irradiance(t, g, cap, p) ==
    ClipLower0(cap * 10 * p * Correction500(t, g))

\* solar_app.py simulate_pv, for one hour
simulate_pv(t, g, cap, p) ==
    ClipLower0(cap * g * p * Correction500(t, g))

\* solar_pro.py EngineeringModel.simulate_generation, for one hour
simulate_generation(t, g, cap, p) ==
    LET cell_temp2 == CellTemp2(t, g)
        temp_loss500 == 500 - (cell_temp2 - 50)
        raw == cap * g * p * temp_loss500
    IN ClipLower0(raw)

InitPV ==
    /\ temp \in PvTemps
    /\ ghi \in PvGhis
    /\ capacity \in PvCapacities
    /\ pr \in PvPrs
    /\ pv_out = None
    /\ gen_kw = None
    /\ AlignIdle /\ DispatchIdle /\ AdvisorIdle /\ SessionIdle

SimulatePv ==
    /\ pv_out = None
    /\ pv_out' = Some(simulate_pv(temp, ghi, capacity, pr))
    /\ UNCHANGED <<temp, ghi, capacity, pr, gen_kw>>
    /\ UNCHANGED <<alignVars, dispatchVars, advisorVars, sessionVars>>

SimulateGeneration ==
    /\ gen_kw = None
    /\ gen_kw' = Some(simulate_generation(temp, ghi, capacity, pr))
    /\ UNCHANGED <<temp, ghi, capacity, pr, pv_out>>
    /\ UNCHANGED <<alignVars, dispatchVars, advisorVars, sessionVars>>

NextPV == SimulatePv \/ SimulateGeneration

SpecPV == InitPV /\ [][NextPV]_vars

\* the inputs the claim is about
PvInRange == temp \in -50 .. 60 /\ ghi \in 0 .. 15 /\ capacity > 0 /\ pr \in 1 .. 99

\* C9: for every temperature in [-50, 60], irradiance in [0, 1500], capacity > 0
\* and 0 < PR < 1, both PV models return a value >= 0, and exactly 0 when the
\* irradiance is 0.
C9_PvNonNegative ==
    PvInRange =>
        /\ pv_out.some => (pv_out.val >= 0 /\ (ghi = 0 => pv_out.val = 0))
        /\ gen_kw.some => (gen_kw.val >= 0 /\ (ghi = 0 => gen_kw.val = 0))

\* C9 witness: both models ran on a freezing night hour (irradiance 0) and gave 0.
C9_Witness ==
    /\ PvInRange /\ ghi = 0 /\ temp = -50
    /\ pv_out = Some(0) /\ gen_kw = Some(0)

\* The clip is what keeps an implausible input from giving negative power.
PvClipExercised ==
    (temp = 300 /\ ghi > 0 /\ pv_out.some) => pv_out.val = 0

----------------------------------------------------------------------------
(* LOAD ALIGNER                                                            *)
(*                                                                         *)
(* load_vals is the numeric column read from the uploaded file, needed_len *)
(* is len(weather_df) >= 1 (both scripts align only when the weather frame *)
(* is not empty).  Both scripts wrap the alignment in try / except.        *)

MaxRawLen == 3
MaxNeeded == 7

LoadVals == {10, 20, 30}

RECURSIVE Tile(_, _)
\* np.tile(a, reps) for a one-dimensional a
Tile(a, reps) == IF reps <= 0 THEN <<>> ELSE a \o Tile(a, reps - 1)

\* a[:n]
Slice(a, n) == SubSeq(a, 1, Min2(n, Len(a)))

\* the bug of forgetting the "+ 1"
AppRepeatsNoPlusOne(n, m) == n \div m

\* solar_app.py: repeats = (needed_len // len(load_vals)) + 1
AppRepeats(n, m) == (n \div m) + 1

\* solar_pro.py: int(np.ceil(req_len / len(load_data)))
ProRepeats(n, m) == (n + m - 1) \div m

\* solar_app.py lines 94-103: the value assigned to weather_df['load'], or
\* "raise" when the statement raises (ZeroDivisionError for an empty raw
\* sequence, ValueError when the array assigned to the column has not the
\* length of the frame).
AppAligned(raw, n) ==
    IF Len(raw) < n
    THEN IF Len(raw) = 0
         THEN [raised |-> TRUE, val |-> <<>>]
         ELSE LET extended_load == Slice(Tile(raw, AppRepeats(n, Len(raw))), n)
              IN [raised |-> Len(extended_load) # n, val |-> extended_load]
    ELSE [raised |-> FALSE, val |-> Slice(raw, n)]

\* solar_pro.py lines 201-205: the value assigned to weather_df['load_kw'], or
\* "raise".
ProAligned(raw, n) ==
    IF Len(raw) >= n
    THEN [raised |-> FALSE, val |-> Slice(raw, n)]
    ELSE IF Len(raw) = 0
         THEN [raised |-> TRUE, val |-> <<>>]
         ELSE LET tiled == Slice(Tile(raw, ProRepeats(n, Len(raw))), n)
              IN [raised |-> Len(tiled) # n, val |-> tiled]

\* weather_df['load'] = 0: the scalar broadcast over the frame
ZeroColumn(n) == [k \in 1 .. n |-> 0]

InitAlign ==
    /\ load_vals \in SeqsUpTo(LoadVals, MaxRawLen)
    /\ needed_len \in 1 .. MaxNeeded
    /\ app_load = None /\ app_msg = "none"
    /\ pro_load_kw = None /\ pro_msg = "none"
    /\ PVIdle /\ DispatchIdle /\ AdvisorIdle /\ SessionIdle

\* solar_app.py lines 88-106, for an uploaded file
AlignApp ==
    /\ app_msg = "none"
    /\ LET r == AppAligned(load_vals, needed_len)
       IN IF r.raised
          THEN /\ app_msg' = "error"
               /\ app_load' = Some(ZeroColumn(needed_len))
          ELSE /\ app_msg' = "success"
               /\ app_load' = Some(r.val)
    /\ UNCHANGED <<load_vals, needed_len, pro_load_kw, pro_msg>>
    /\ UNCHANGED <<pvVars, dispatchVars, advisorVars, sessionVars>>

\* solar_pro.py lines 190-208, for an uploaded file and a fetched weather frame
AlignPro ==
    /\ pro_msg = "none"
    /\ LET r == ProAligned(load_vals, needed_len)
       IN IF r.raised
          THEN /\ pro_msg' = "error"
               /\ pro_load_kw' = pro_load_kw
          ELSE /\ pro_msg' = "success"
               /\ pro_load_kw' = Some(r.val)
    /\ UNCHANGED <<load_vals, needed_len, app_load, app_msg>>
    /\ UNCHANGED <<pvVars, dispatchVars, advisorVars, sessionVars>>

NextAlign == AlignApp \/ AlignPro

SpecAlign == InitAlign /\ [][NextAlign]_vars

\* the series has length n and its element i (0-based) is raw[i mod m]
IsCyclicAlignment(series, raw, n) ==
    /\ Len(series) = n
    /\ \A k \in 1 .. n : series[k] = raw[((k - 1) % Len(raw)) + 1]

\* C4: for a raw sequence of length m >= 1 and a target length n >= 1, both
\* aligners produce a series of exactly length n whose element i is raw[i mod m].
C4_AlignCyclic ==
    Len(load_vals) >= 1 =>
        /\ app_msg # "none" =>
              app_load.some /\ IsCyclicAlignment(app_load.val, load_vals, needed_len)
        /\ pro_msg # "none" =>
              pro_load_kw.some /\ IsCyclicAlignment(pro_load_kw.val, load_vals, needed_len)

\* C4 witness: align([10,20,30], n=7) = [10,20,30,10,20,30,10] in both scripts.
C4_Witness ==
    /\ load_vals = <<10, 20, 30>> /\ needed_len = 7
    /\ app_load = Some(<<10, 20, 30, 10, 20, 30, 10>>)
    /\ pro_load_kw = Some(<<10, 20, 30, 10, 20, 30, 10>>)

\* the other two examples of the aligner: n = 3 and n = 2
AlignExamples ==
    (load_vals = <<10, 20, 30>> /\ app_load.some /\ pro_load_kw.some) =>
        /\ needed_len = 3 => app_load.val = <<10, 20, 30>> /\ pro_load_kw.val = <<10, 20, 30>>
        /\ needed_len = 2 => app_load.val = <<10, 20>> /\ pro_load_kw.val = <<10, 20>>

\* C6: an empty raw sequence makes the alignment fail: neither script ends up
\* with a load series (in particular not with a column of zeros).
C6_EmptyLoadFails ==
    Len(load_vals) = 0 =>
        /\ app_msg # "none" => (app_msg = "error" /\ app_load = None)
        /\ pro_msg # "none" => (pro_msg = "error" /\ pro_load_kw = None)

\* what solar_pro.py alone does on an empty raw sequence
ProEmptyLoadFails ==
    (Len(load_vals) = 0 /\ pro_msg # "none") => (pro_msg = "error" /\ pro_load_kw = None)

\* what solar_app.py does on an empty raw sequence: an error message and zeros
AppEmptyLoadZeros ==
    (Len(load_vals) = 0 /\ app_msg # "none") =>
        (app_msg = "error" /\ app_load = Some(ZeroColumn(needed_len)))

----------------------------------------------------------------------------
(* BATTERY DISPATCH (solar_app.py lines 113-142)                           *)
(*                                                                         *)
(* Energies and powers are integers (kWh, kW, one-hour steps).  The        *)
(* capacities are even, so that battery_cap * 0.5 is an integer as well.   *)

MaxHours == 3
MaxHalfCap == 2
MaxLoad == 1
MaxGen == 1

DispatchCaps == {2 * h : h \in 0 .. MaxHalfCap} \cup {100}
DispatchLoads == (0 .. MaxLoad) \cup {200}
DispatchGens == (0 .. MaxGen) \cup {200}

\* [0.0] * len(weather_df)
Zeros(n) == [k \in 1 .. n |-> 0]

\* battery_cap * 0.5
HalfCap(cap) == cap \div 2

\* the bug of subtracting the operands the wrong way round
NetLoadReversed(l, g) == [k \in 1 .. Len(l) |-> g[k] - l[k]]

\* weather_df['net_load'] = weather_df['load'] - weather_df['pv_gen']
NetLoad(l, g) == [k \in 1 .. Len(l) |-> l[k] - g[k]]

\* the bug of ignoring the headroom of the battery
ActualChargeNoHeadroom(net, s, cap) == Min2(Abs(net), HalfCap(cap))

\* the bug of ignoring the size of the surplus
ActualChargeNoSurplus(net, s, cap) == Min2(cap - s, HalfCap(cap))

\* actual_charge = min(abs(net), can_charge, battery_cap * 0.5)
ActualCharge(net, s, cap) ==
    LET can_charge == cap - s
    IN Min3(Abs(net), can_charge, HalfCap(cap))

\* the bug of ignoring the 0.5C rate limit
ActualDischargeNoRate(net, s, cap) == Min2(net, s)

\* actual_discharge = min(net, can_discharge, battery_cap * 0.5)
ActualDischarge(net, s, cap) ==
    LET can_discharge == s
    IN Min3(net, can_discharge, HalfCap(cap))

\* weather_df['grid_power'] = weather_df['net_load'] - weather_df['battery_power']
GridPower(net, bat) == [k \in 1 .. Len(net) |-> net[k] - bat[k]]

\* lines 114-120: the state before the guard of the loop
InitDispatch ==
    /\ battery_cap \in DispatchCaps
    /\ \E n \in 1 .. MaxHours :
          /\ load \in SeqsOfLen(DispatchLoads, n)
          /\ pv_gen \in SeqsOfLen(DispatchGens, n)
    /\ net_load = NetLoad(load, pv_gen)
    /\ soc = Zeros(Len(load))
    /\ battery_action = Zeros(Len(load))
    /\ current_soc = HalfCap(battery_cap)
    /\ i = 1
    /\ grid_power = None
    /\ pc = "guard"
    /\ PVIdle /\ AlignIdle /\ AdvisorIdle /\ SessionIdle

\* line 122, battery_cap > 0 is false: the loop is skipped
GuardSkip ==
    /\ pc = "guard"
    /\ ~(battery_cap > 0)
    /\ pc' = "grid"
    /\ UNCHANGED <<battery_cap, load, pv_gen, net_load, i, current_soc, soc,
                   battery_action, grid_power>>
    /\ UNCHANGED <<pvVars, alignVars, advisorVars, sessionVars>>

\* line 122, battery_cap > 0 is true
GuardEnter ==
    /\ pc = "guard"
    /\ battery_cap > 0
    /\ pc' = "loop"
    /\ UNCHANGED <<battery_cap, load, pv_gen, net_load, i, current_soc, soc,
                   battery_action, grid_power>>
    /\ UNCHANGED <<pvVars, alignVars, advisorVars, sessionVars>>

\* lines 126-130 and 138: one hour with a surplus
StepCharge ==
    /\ pc = "loop" /\ i <= Len(net_load)
    /\ net_load[i] < 0
    /\ LET actual_charge == ActualCharge(net_load[i], current_soc, battery_cap)
       IN /\ current_soc' = current_soc + actual_charge
          /\ battery_action' = [battery_action EXCEPT ![i] = -actual_charge]
          /\ soc' = [soc EXCEPT ![i] = current_soc + actual_charge]
    /\ i' = i + 1
    /\ UNCHANGED <<battery_cap, load, pv_gen, net_load, grid_power, pc>>
    /\ UNCHANGED <<pvVars, alignVars, advisorVars, sessionVars>>

\* lines 132-138: one hour with a deficit
StepDischarge ==
    /\ pc = "loop" /\ i <= Len(net_load)
    /\ ~(net_load[i] < 0) /\ net_load[i] > 0
    /\ LET actual_discharge == ActualDischarge(net_load[i], current_soc, battery_cap)
       IN /\ current_soc' = current_soc - actual_discharge
          /\ battery_action' = [battery_action EXCEPT ![i] = actual_discharge]
          /\ soc' = [soc EXCEPT ![i] = current_soc - actual_discharge]
    /\ i' = i + 1
    /\ UNCHANGED <<battery_cap, load, pv_gen, net_load, grid_power, pc>>
    /\ UNCHANGED <<pvVars, alignVars, advisorVars, sessionVars>>

\* line 138 alone: one hour with net == 0
StepBalanced ==
    /\ pc = "loop" /\ i <= Len(net_load)
    /\ ~(net_load[i] < 0) /\ ~(net_load[i] > 0)
    /\ soc' = [soc EXCEPT ![i] = current_soc]
    /\ i' = i + 1
    /\ UNCHANGED <<battery_cap, load, pv_gen, net_load, current_soc,
                   battery_action, grid_power, pc>>
    /\ UNCHANGED <<pvVars, alignVars, advisorVars, sessionVars>>

\* the range of the for loop is exhausted
LoopEnd ==
    /\ pc = "loop" /\ i > Len(net_load)
    /\ pc' = "grid"
    /\ UNCHANGED <<battery_cap, load, pv_gen, net_load, i, current_soc, soc,
                   battery_action, grid_power>>
    /\ UNCHANGED <<pvVars, alignVars, advisorVars, sessionVars>>

\* lines 140-142
ComputeGrid ==
    /\ pc = "grid"
    /\ grid_power' = Some(GridPower(net_load, battery_action))
    /\ pc' = "done"
    /\ UNCHANGED <<battery_cap, load, pv_gen, net_load, i, current_soc, soc,
                   battery_action>>
    /\ UNCHANGED <<pvVars, alignVars, advisorVars, sessionVars>>

NextDispatch ==
    \/ GuardSkip
    \/ GuardEnter
    \/ StepCharge
    \/ StepDischarge
    \/ StepBalanced
    \/ LoopEnd
    \/ ComputeGrid

SpecDispatch == InitDispatch /\ [][NextDispatch]_vars

\* the hours whose end-of-hour state of charge has been recorded
Recorded == IF pc \in {"loop", "grid", "done"} /\ battery_cap > 0 THEN 1 .. (i - 1) ELSE {}

\* the state of charge at the start of hour k
SocBefore(k) == IF k = 1 THEN battery_cap \div 2 ELSE soc[k - 1]

\* C1: with a capacity > 0 the loop starts from 0.5 x capacity, and the state of
\* charge recorded at the end of every hour lies in [0, capacity].
C1_SocInRange ==
    battery_cap > 0 =>
        /\ pc = "guard" => 2 * current_soc = battery_cap
        /\ 0 <= current_soc /\ current_soc <= battery_cap
        /\ \A k \in Recorded : 0 <= soc[k] /\ soc[k] <= battery_cap

\* C1 witness: a finished run that filled the battery in one hour and emptied it
\* in a later one.
C1_Witness ==
    /\ pc = "done" /\ battery_cap > 0
    /\ \E j \in Recorded : \E k \in Recorded :
          j < k /\ soc[j] = battery_cap /\ soc[k] = 0

\* C2: in every hour of the loop, a surplus charges
\* min(|net|, capacity - soc_before, 0.5 x capacity), a deficit discharges
\* min(net, soc_before, 0.5 x capacity), a balanced hour does nothing; the state of
\* charge moves by exactly that amount.  Capacity 100 with net load
\* [-200, 200, 200] gives soc [100, 50, 0] and battery power [-50, 50, 50].
C2_HourlyTransition ==
    /\ \A k \in Recorded :
          LET net == net_load[k]
              before == SocBefore(k)
              half == battery_cap \div 2
          IN /\ net < 0 =>
                   /\ battery_action[k] = -Min3(-net, battery_cap - before, half)
                   /\ soc[k] = before + Min3(-net, battery_cap - before, half)
             /\ net > 0 =>
                   /\ battery_action[k] = Min3(net, before, half)
                   /\ soc[k] = before - Min3(net, before, half)
             /\ net = 0 =>
                   /\ battery_action[k] = 0
                   /\ soc[k] = before
    /\ (pc = "done" /\ battery_cap = 100 /\ net_load = <<-200, 200, 200>>) =>
          /\ soc = <<100, 50, 0>>
          /\ battery_action = <<-50, 50, 50>>

\* C2 witness: the run of the example has finished with the values of the example.
C2_Witness ==
    /\ pc = "done" /\ battery_cap = 100 /\ net_load = <<-200, 200, 200>>
    /\ soc = <<100, 50, 0>> /\ battery_action = <<-50, 50, 50>>

\* C3: with capacity 0 the simulation is skipped: the battery power is 0 in every
\* hour and the grid power is the net load (load minus generation) of the hour.
C3_ZeroCapacitySkips ==
    (battery_cap = 0 /\ pc = "done") =>
        /\ grid_power.some
        /\ \A k \in 1 .. Len(load) :
              /\ battery_action[k] = 0
              /\ soc[k] = 0
              /\ grid_power.val[k] = load[k] - pv_gen[k]

\* C3 witness: a finished run with capacity 0 that had a surplus hour and a
\* deficit hour.
C3_Witness ==
    /\ battery_cap = 0 /\ pc = "done" /\ grid_power.some
    /\ \E j \in 1 .. Len(load) : load[j] - pv_gen[j] < 0 /\ grid_power.val[j] < 0
    /\ \E k \in 1 .. Len(load) : load[k] - pv_gen[k] > 0 /\ grid_power.val[k] > 0

\* C10: for every capacity >= 0 and every hour, the grid power has the sign of
\* the net load or is 0, and is not larger in magnitude.
C10_NeverOverServes ==
    pc = "done" =>
        \A k \in 1 .. Len(net_load) :
            LET g == grid_power.val[k]
                net == net_load[k]
            IN /\ g = net - battery_action[k]
               /\ net > 0 => (0 <= g /\ g <= net)
               /\ net < 0 => (net <= g /\ g <= 0)
               /\ net = 0 => g = 0

\* C10 witness: a finished run in which the battery took a part of a surplus
\* and later served a part of a deficit.
C10_Witness ==
    /\ pc = "done" /\ battery_cap > 0
    /\ \E j \in 1 .. Len(net_load) : \E k \in 1 .. Len(net_load) :
          /\ j < k
          /\ net_load[j] < grid_power.val[j] /\ grid_power.val[j] < 0
          /\ 0 < grid_power.val[k] /\ grid_power.val[k] < net_load[k]

----------------------------------------------------------------------------
(* DAILY AGGREGATION AND STORAGE ADVISOR (solar_pro.py lines 239-262)      *)
(*                                                                         *)
(* day_net is df['net_load'] (line 242) grouped by calendar day, in kW per *)
(* one-hour step, so that a sum over a day is in kWh.                      *)
(*                                                                         *)
(* Lines 243-245 are one statement.  resample('D').apply(...) with a dict  *)
(* of a list of two functions evaluates both lambdas on every day and      *)
(* returns a frame with the columns (net_load, f1), (net_load, f2);        *)
(* ['net_load'] selects a DataFrame, and a DataFrame has no attribute      *)
(* tolist.  The statement therefore raises AttributeError on every input:  *)
(* the name daily is never bound, lines 246-262 (the effective column, the *)
(* filter and the recommendation) are never executed, and Streamlit shows  *)
(* the exception in tab 3.                                                 *)

MaxDays == 2
HoursPerDay == 2
MaxNet == 2

AdvisorNets == -MaxNet .. MaxNet

RECURSIVE SumSeq(_)
SumSeq(xs) == IF xs = <<>> THEN 0 ELSE Head(xs) + SumSeq(Tail(xs))

\* lambda x: abs(x[x < 0].sum())
SurplusOf(day) == Abs(SumSeq(SelectSeq(day, LAMBDA x : x < 0)))

\* lambda x: x[x > 0].sum()
DeficitOf(day) == SumSeq(SelectSeq(day, LAMBDA x : x > 0))

\* lines 240-242: final_df is in the session and net_load has been computed
InitAdvisor ==
    /\ \E n \in 1 .. MaxDays :
          day_net \in SeqsOfLen(SeqsOfLen(AdvisorNets, HoursPerDay), n)
    /\ daily = None /\ effective = None
    /\ advice = [kind |-> "none"]
    /\ adv_pc = "aggregate"
    /\ PVIdle /\ AlignIdle /\ DispatchIdle /\ SessionIdle

\* lines 243-245 raise: the tab shows the exception, nothing is bound
AggregateRaises ==
    /\ adv_pc = "aggregate"
    /\ advice' = [kind |-> "exception"]
    /\ adv_pc' = "raised"
    /\ UNCHANGED <<day_net, daily, effective>>
    /\ UNCHANGED <<pvVars, alignVars, dispatchVars, sessionVars>>

NextAdvisor == AggregateRaises

SpecAdvisor == InitAdvisor /\ [][NextAdvisor]_vars

\* min(surplus_kwh, deficit_kwh) of day d, from the net load of the day
EffectiveStorage(d) == Min2(SurplusOf(day_net[d]), DeficitOf(day_net[d]))

AllDays == 1 .. Len(day_net)

\* C5: once the tab-3 code has run, every day has an effective storage, and it
\* is the minimum of the surplus and the deficit of that same day.
C5_EffectiveIsDailyMin ==
    adv_pc = "raised" =>
        /\ effective.some
        /\ \A d \in AllDays : effective.val[d] = EffectiveStorage(d)

\* C8: when the tab-3 code has run and all days have effective storage <= 1, the
\* advisor shows the "no storage warranted" result; a numeric recommendation is
\* given only when some day has effective storage > 1.
C8_AdvisorFilter ==
    /\ (adv_pc = "raised" /\ \A d \in AllDays : EffectiveStorage(d) <= 1) =>
          advice.kind = "no_storage"
    /\ advice.kind = "recommend" => \E d \in AllDays : EffectiveStorage(d) > 1

\* What the tab-3 code does on every input: it ends in the exception, with no
\* frame daily, no effective column, no warning and no recommendation.
AdvisorAlwaysRaises ==
    /\ adv_pc = "raised" => advice.kind = "exception"
    /\ advice.kind \notin {"no_storage", "recommend"}
    /\ ~daily.some /\ ~effective.some

\* A run over days that do warrant storage (effective storage > 1) also ends in
\* the exception.
AdvisorRaisesDespiteStorage ==
    /\ adv_pc = "raised" /\ advice.kind = "exception"
    /\ \E d \in AllDays : EffectiveStorage(d) > 1

----------------------------------------------------------------------------
(* RERUNS OF THE SCRIPTS                                                   *)
(*                                                                         *)
(* Streamlit runs the whole script again on every interaction; only        *)
(* st.session_state survives from one run to the next.  An action below is *)
(* one complete run of a script.                                           *)
(*                                                                         *)
(* solar_pro.py: a weather frame is identified by the number of the fetch  *)
(* that returned it.  The uploader holds no file, a file with a usable     *)
(* load column ("good") or a file whose load column has no rows ("empty"). *)

MaxFetches == 3

Files == {"none", "good", "empty"}
FetchOutcomes == {"ok", "failed"}

\* lines 190-208 of one run: the session's final_df after the merge step
MergeLoad(file, weather, final) ==
    IF file # "none" /\ weather.some
    THEN IF file = "good"
         THEN Some([weather |-> weather.val, load |-> file])
         ELSE final
    ELSE final

\* lines 190-208 of one run: is "read failed" shown
MergeFails(file, weather) == file # "none" /\ weather.some /\ file # "good"

\* lines 210-237: tab 2 shows the curves of final_df when the session has one
Tab2View(final) == IF final.some THEN "results" ELSE "info"

\* lines 239-264: tab 3 runs the advisor when the session has a final_df, and
\* the advisor raises (see above)
Tab3View(final) == IF final.some THEN "exception" ELSE "info"

InitSession ==
    /\ weather_df = None
    /\ final_df = None
    /\ uploaded_file = "none"
    /\ last_fetch = "never"
    /\ fetches = 0
    /\ pro_tab2 = "info"
    /\ pro_tab3 = "info"
    /\ pro_error = {}
    /\ app_last_fetch = "never"
    /\ app_view = "idle"
    /\ PVIdle /\ AlignIdle /\ DispatchIdle /\ AdvisorIdle

\* solar_pro.py, a run started by the fetch button (lines 180-188), followed by
\* the merge step and the tabs
ProRerunFetch ==
    /\ fetches < MaxFetches
    /\ \E outcome \in FetchOutcomes :
          LET weather == IF outcome = "ok" THEN Some(fetches + 1) ELSE weather_df
              final == MergeLoad(uploaded_file, weather, final_df)
          IN /\ weather_df' = weather
             /\ final_df' = final
             /\ last_fetch' = outcome
             /\ pro_error' = (IF outcome = "failed" THEN {"fetch_failed"} ELSE {})
                               \cup (IF MergeFails(uploaded_file, weather)
                                     THEN {"read_failed"} ELSE {})
             /\ pro_tab2' = Tab2View(final)
             /\ pro_tab3' = Tab3View(final)
    /\ fetches' = fetches + 1
    /\ UNCHANGED <<uploaded_file, app_last_fetch, app_view>>
    /\ UNCHANGED <<pvVars, alignVars, dispatchVars, advisorVars>>

\* solar_pro.py, a run started by a change of the uploaded file
ProRerunUpload ==
    /\ \E file \in Files :
          LET final == MergeLoad(file, weather_df, final_df)
          IN /\ file # uploaded_file
             /\ uploaded_file' = file
             /\ final_df' = final
             /\ pro_error' = IF MergeFails(file, weather_df) THEN {"read_failed"} ELSE {}
             /\ pro_tab2' = Tab2View(final)
             /\ pro_tab3' = Tab3View(final)
    /\ UNCHANGED <<weather_df, last_fetch, fetches, app_last_fetch, app_view>>
    /\ UNCHANGED <<pvVars, alignVars, dispatchVars, advisorVars>>

\* solar_pro.py, a run started by any other widget (address, coordinates,
\* area, capacity, PR slider, view mode): no fetch, the same file; st.button
\* is False, so the message of an earlier fetch is gone
ProRerunWidget ==
    /\ LET final == MergeLoad(uploaded_file, weather_df, final_df)
       IN /\ final_df' = final
          /\ pro_error' = IF MergeFails(uploaded_file, weather_df) THEN {"read_failed"} ELSE {}
          /\ pro_tab2' = Tab2View(final)
          /\ pro_tab3' = Tab3View(final)
    /\ UNCHANGED <<weather_df, uploaded_file, last_fetch, fetches, app_last_fetch, app_view>>
    /\ UNCHANGED <<pvVars, alignVars, dispatchVars, advisorVars>>

\* solar_app.py, a run in which get_weather_data fetches (lines 81-83, 201-202)
AppRerun ==
    /\ \E outcome \in FetchOutcomes :
          /\ app_last_fetch' = outcome
          /\ app_view' = IF outcome = "ok" THEN "results" ELSE "info"
    /\ UNCHANGED <<weather_df, final_df, uploaded_file, last_fetch, fetches,
                   pro_tab2, pro_tab3, pro_error>>
    /\ UNCHANGED <<pvVars, alignVars, dispatchVars, advisorVars>>

NextSession ==
    \/ ProRerunFetch
    \/ ProRerunUpload
    \/ ProRerunWidget
    \/ AppRerun

SpecSession == InitSession /\ [][NextSession]_vars

\* C7: whenever the most recent weather fetch failed, no downstream result is
\* displayed and the program shows a message and no exception.
C7_FailedFetchShowsNoResults ==
    /\ last_fetch = "failed" =>
          /\ pro_tab2 = "info"
          /\ pro_tab3 = "info"
    /\ app_last_fetch = "failed" => app_view = "info"

\* What holds of solar_app.py: a failed fetch shows the waiting message only.
AppFailedFetchShowsNoResults ==
    app_last_fetch = "failed" => app_view = "info"

\* What holds of solar_pro.py: the tabs show what the session holds, which is
\* data of an earlier successful fetch; the message of a failed fetch is shown
\* only in the run of the fetch.
ProFailedFetchShowsStale ==
    /\ "fetch_failed" \in pro_error => last_fetch = "failed"
    /\ (pro_tab3 = "exception") <=> final_df.some
    /\ final_df.some => (weather_df.some /\ final_df.val.weather <= weather_df.val)
    /\ (pro_tab2 = "results") <=> final_df.some

====
